---------------------------- MODULE Spec2Model ----------------------------
(***************************************************************************)
(* A model of parsedict: the formatting-aware parsing helpers              *)
(* (src/parser/helpers.py), the entry segmenter (src/lexer.py) and the     *)
(* driver (src/main.py, src/logger.py).                                    *)
(*                                                                         *)
(* A codepoint is a string: an ASCII character stands for itself, any      *)
(* other codepoint is written "U+XXXX".  A text (a Python str) is a        *)
(* sequence of codepoints.  A Character is [char, format], a Format is     *)
(* [font, bold, italic, sup, sub] as in src/lexer.py.                      *)
(***************************************************************************)
EXTENDS Integers, Sequences, FiniteSets, TLC

VARIABLES
    nc,     \* one call of normalize_char: its arguments and its outcome
    ft,     \* one call of formatted_text: its arguments and its locals
    consumer, \* one call of the parser built by chars(): arguments, locals
    segmenter, \* one call of extract_entries: its locals and what it yielded
    report, \* one call of report_error: its argument and its locals
    driver, \* one run of execute_single_process or execute_multi_process
    prepared \* one call of prepare_for_output: its argument and its result

vars == <<nc, ft, consumer, segmenter, report, driver, prepared>>

Idle == [pc |-> "idle"]

(***************************************************************************)
(* Characters and formats (src/lexer.py)                                   *)
(***************************************************************************)
NoFont == "None"

Format(font, bold, italic, sup, sub) ==
    [font |-> font, bold |-> bold, italic |-> italic, sup |-> sup, sub |-> sub]

DefaultFormat == Format(NoFont, FALSE, FALSE, FALSE, FALSE)

Character(char, format) == [char |-> char, format |-> format]

LF == "U+000A"

\* str.isspace() on the codepoints of the model
isspace(ch) == ch \in {" ", LF}

(***************************************************************************)
(* Conversion tables (src/parser/helpers.py)                               *)
(***************************************************************************)
LinguaTable ==
    [ch \in {"&", "2", "8", "@", "U+041A", "U+042B", "U+0446", "U+045C"} |->
        CASE ch = "&"      -> <<"u", "U+032F">>
          [] ch = "2"      -> <<"i", "U+032E">>
          [] ch = "8"      -> <<"u", "U+0307">>
          [] ch = "@"      -> <<"i", "U+032F">>
          [] ch = "U+041A" -> <<"U+0259", "U+0311">>
          [] ch = "U+042B" -> <<"o", "U+032D">>
          [] ch = "U+0446" -> <<"e", "U+032E">>
          [] ch = "U+045C" -> <<"U+010D", "U+0301">>]

FuTable == [ch \in {"U+00B9"} |-> <<"i", "U+032F">>]

FONT_CONV ==
    [font \in {"Lingua", "1 FU"} |->
        IF font = "Lingua" THEN LinguaTable ELSE FuTable]

LatnTable ==
    [ch \in {"U+0430", "U+0438", "U+043F", "U+0445", "U+0448", "U+04E8",
             "U+04E9"} |->
        CASE ch = "U+0430" -> <<"a">>
          [] ch = "U+0438" -> <<"u">>
          [] ch = "U+043F" -> <<"n">>
          [] ch = "U+0445" -> <<"x">>
          [] ch = "U+0448" -> <<"U+026F">>
          [] ch = "U+04E8" -> <<"U+019F">>
          [] ch = "U+04E9" -> <<"U+0275">>]

CyrlTable ==
    [ch \in {"U+00E1", "U+00E9", "U+00F3", "U+00FF", "U+0275", "c"} |->
        CASE ch = "U+00E1" -> <<"U+0430", "U+0301">>
          [] ch = "U+00E9" -> <<"U+0435", "U+0301">>
          [] ch = "U+00F3" -> <<"U+043E", "U+0301">>
          [] ch = "U+00FF" -> <<"U+04F1">>
          [] ch = "U+0275" -> <<"U+04E9">>
          [] ch = "c"      -> <<"U+0441">>]

SCRIPT_CONV ==
    [script \in {"Latn", "Cyrl"} |->
        IF script = "Latn" THEN LatnTable ELSE CyrlTable]

ALWAYS_CONV == [ch \in {"U+0473"} |-> <<"U+04E9">>]

\* The script word in unicodedata.name(ch, ''): "LATIN", "CYRILLIC" or neither.
UnicodeScriptWord(ch) ==
    IF ch \in {"a", "c", "e", "i", "n", "o", "u", "x", "U+00E1", "U+00E9",
               "U+00F3", "U+00FF", "U+0275", "U+026F", "U+019F", "U+010D",
               "U+0259"}
    THEN "LATIN"
    ELSE IF ch \in {"U+0430", "U+0435", "U+0438", "U+043E", "U+043F", "U+0441",
                    "U+0445", "U+0448", "U+04E8", "U+04E9", "U+04F1", "U+0473",
                    "U+041A", "U+042B", "U+0446", "U+045C"}
    THEN "CYRILLIC"
    ELSE ""

(***************************************************************************)
(* normalize_char (src/parser/helpers.py:73).  The outcome of a call is    *)
(* [raised, value, logs]: the returned text, or the exception raised, and  *)
(* the log records emitted on the way.                                     *)
(***************************************************************************)
Return(value, logs) == [raised |-> FALSE, value |-> value, logs |-> logs]

Raise(exc) == [raised |-> TRUE, value |-> exc, logs |-> <<>>]

warn_replacement(ch) == [level |-> "INFO", msg |-> "Replaced", arg |-> ch.char]

\* normalize_char without the glyph-table branch: a character of a special
\* font falls through to the script, always and as-is rules.
normalize_char_no_font_check(ch, kw) ==
    IF isspace(ch.char) THEN Return(<<" ">>, <<>>)
    ELSE IF "script" \in DOMAIN kw /\ ch.char \in DOMAIN SCRIPT_CONV[kw.script]
    THEN Return(SCRIPT_CONV[kw.script][ch.char], <<warn_replacement(ch)>>)
    ELSE IF ch.char \in DOMAIN ALWAYS_CONV
    THEN Return(ALWAYS_CONV[ch.char], <<warn_replacement(ch)>>)
    ELSE Return(<<ch.char>>, <<>>)

normalize_char(ch, kw) ==
    IF isspace(ch.char) THEN Return(<<" ">>, <<>>)
    ELSE IF ch.format.font \in DOMAIN FONT_CONV
    THEN LET table == FONT_CONV[ch.format.font]
         IN  IF ch.char \in DOMAIN table
             THEN Return(table[ch.char], <<>>)
             ELSE Raise([exc |-> "Exception", code |-> ch.char,
                         font |-> ch.format.font])
    ELSE IF "script" \in DOMAIN kw /\ ch.char \in DOMAIN SCRIPT_CONV[kw.script]
    THEN Return(SCRIPT_CONV[kw.script][ch.char], <<warn_replacement(ch)>>)
    ELSE IF ch.char \in DOMAIN ALWAYS_CONV
    THEN Return(ALWAYS_CONV[ch.char], <<warn_replacement(ch)>>)
    ELSE LET no == IF "script" \notin DOMAIN kw THEN {}
                   ELSE {"LATIN", "CYRILLIC"}
                        \ (IF kw.script = "Latn" THEN {"LATIN"} ELSE {"CYRILLIC"})
         IN  Return(<<ch.char>>,
                    IF UnicodeScriptWord(ch.char) \in no
                    THEN <<[level |-> "DEBUG", msg |-> "Unexpected",
                            arg |-> ch.char]>>
                    ELSE <<>>)

(***************************************************************************)
(* Text helpers: str.rstrip, unicodedata.normalize('NFC', .), plain_text   *)
(***************************************************************************)
\* An rstrip that removes nothing.
rstrip_nothing(text) == text

RECURSIVE rstrip(_)
rstrip(text) ==
    IF text # <<>> /\ isspace(text[Len(text)])
    THEN rstrip(SubSeq(text, 1, Len(text) - 1))
    ELSE text

\* unicodedata.normalize('NFC', text) on the codepoints of the model: canonical
\* decomposition, canonical ordering of the combining marks by combining class,
\* then composition of each starter with the unblocked marks that follow it.
NfcPairs ==
    [pair \in {<<"a", "U+0301">>, <<"e", "U+0301">>, <<"i", "U+0301">>,
               <<"o", "U+0301">>, <<"u", "U+0301">>, <<"U+0438", "U+0306">>} |->
        CASE pair = <<"a", "U+0301">> -> "U+00E1"
          [] pair = <<"e", "U+0301">> -> "U+00E9"
          [] pair = <<"i", "U+0301">> -> "U+00ED"
          [] pair = <<"o", "U+0301">> -> "U+00F3"
          [] pair = <<"u", "U+0301">> -> "U+00FA"
          [] pair = <<"U+0438", "U+0306">> -> "U+0439"]

CombiningClass(ch) ==
    IF ch \in {"U+0301", "U+0306", "U+0307", "U+0311"} THEN 230
    ELSE IF ch \in {"U+032D", "U+032E", "U+032F"} THEN 220
    ELSE 0

Decompose(ch) ==
    IF \E pair \in DOMAIN NfcPairs : NfcPairs[pair] = ch
    THEN CHOOSE pair \in DOMAIN NfcPairs : NfcPairs[pair] = ch
    ELSE <<ch>>

RECURSIVE DecomposeAll(_)
DecomposeAll(text) ==
    IF text = <<>> THEN <<>> ELSE Decompose(Head(text)) \o DecomposeAll(Tail(text))

RECURSIVE InsertMark(_, _)
InsertMark(done, ch) ==
    IF done # <<>> /\ CombiningClass(done[Len(done)]) > CombiningClass(ch)
    THEN Append(InsertMark(SubSeq(done, 1, Len(done) - 1), ch), done[Len(done)])
    ELSE Append(done, ch)

RECURSIVE CanonicalOrder(_, _)
CanonicalOrder(done, rest) ==
    IF rest = <<>> THEN done
    ELSE CanonicalOrder(IF CombiningClass(Head(rest)) = 0
                        THEN Append(done, Head(rest))
                        ELSE InsertMark(done, Head(rest)),
                        Tail(rest))

RECURSIVE ComposeFrom(_, _, _, _)
ComposeFrom(done, starter, last_cc, rest) ==
    IF rest = <<>> THEN done
    ELSE LET ch == Head(rest)
             cc == CombiningClass(ch)
         IN  IF /\ starter > 0
                /\ (last_cc < cc \/ starter = Len(done))
                /\ <<done[starter], ch>> \in DOMAIN NfcPairs
             THEN ComposeFrom([done EXCEPT ![starter] = NfcPairs[<<@, ch>>]],
                              starter, last_cc, Tail(rest))
             ELSE ComposeFrom(Append(done, ch),
                              IF cc = 0 THEN Len(done) + 1 ELSE starter,
                              cc, Tail(rest))

NFC(text) == ComposeFrom(<<>>, 0, 0, CanonicalOrder(<<>>, DecomposeAll(text)))

\* ''.join(map(normalize_char, chars)): the first exception ends the call.
RECURSIVE JoinNormalized(_, _, _)
RECURSIVE JoinNext(_, _, _, _)
JoinNext(acc, r, rest, kw) ==
    IF r.raised
    THEN [raised |-> TRUE, value |-> r.value, logs |-> acc.logs]
    ELSE JoinNormalized(Return(acc.value \o r.value, acc.logs \o r.logs), rest, kw)

JoinNormalized(acc, cs, kw) ==
    IF cs = <<>> THEN acc
    ELSE JoinNext(acc, normalize_char(Head(cs), kw), Tail(cs), kw)

\* if normalize: return unicodedata.normalize('NFC', text) else: return text
Normalized(r, normalize) ==
    IF r.raised \/ ~normalize THEN r ELSE Return(NFC(r.value), r.logs)

plain_text(cs, normalize, kw) ==
    Normalized(JoinNormalized(Return(<<>>, <<>>), cs, kw), normalize)

(***************************************************************************)
(* Specification SpecNormalize: one call of normalize_char on any          *)
(* character of NcChars x NcFonts with any script option.                  *)
(***************************************************************************)
NcChars == {"a", "c", "e", " ", LF, "&", "2", "U+041A", "U+00B9", "U+0430",
            "U+00E9", "U+0473", "U+0301"}

NcFonts == {NoFont, "Arial", "Lingua", "1 FU"}

NcKwargs == {<<>>} \cup {[script |-> s] : s \in {"Latn", "Cyrl"}}

NcInit ==
    /\ nc \in [pc : {"call"},
               c : {Character(ch, Format(f, b, FALSE, FALSE, FALSE)) :
                        ch \in NcChars, f \in NcFonts, b \in BOOLEAN},
               kwargs : NcKwargs]
    /\ ft = Idle
    /\ consumer = Idle
    /\ segmenter = Idle
    /\ report = Idle
    /\ driver = Idle
    /\ prepared = Idle

NormalizeChar ==
    /\ nc.pc = "call"
    /\ nc' = [pc |-> "done", c |-> nc.c, kwargs |-> nc.kwargs,
              result |-> normalize_char(nc.c, nc.kwargs)]
    /\ UNCHANGED <<ft, consumer, segmenter, report, driver, prepared>>

NcNext == NormalizeChar

SpecNormalize == NcInit /\ [][NcNext]_vars

HasGlyphTable(ch) == ch.format.font \in DOMAIN FONT_CONV

UnmappedGlyph(ch) ==
    /\ ~isspace(ch.char)
    /\ HasGlyphTable(ch)
    /\ ch.char \notin DOMAIN FONT_CONV[ch.format.font]

\* C7: a non-whitespace character in a font with a glyph table but with a
\* codepoint absent from the table makes normalize_char raise, whatever the
\* script option; a whitespace character in such a font normalizes to one space.
C7_GlyphFailure ==
    (nc.pc = "done" /\ HasGlyphTable(nc.c)) =>
        /\ UnmappedGlyph(nc.c) =>
              /\ nc.result.raised
              /\ nc.result.value.code = nc.c.char
              /\ nc.result.value.font = nc.c.format.font
        /\ isspace(nc.c.char) =>
              /\ ~nc.result.raised
              /\ nc.result.value = <<" ">>

C7_Witness ==
    /\ nc.pc = "done"
    /\ UnmappedGlyph(nc.c)
    /\ nc.c.char \in DOMAIN SCRIPT_CONV["Latn"]
    /\ "script" \in DOMAIN nc.kwargs
    /\ nc.result.raised

(***************************************************************************)
(* formatted_text (src/parser/helpers.py:181).  A markup node is a record  *)
(* [tag, data, text, children]: a leaf (a Python str) has tag "#text" and  *)
(* its text, a tagged node (a Python tuple (tag, data, child, ...)) has    *)
(* its children.  A stack level is the list under construction of a node,  *)
(* in the same shape; stack[0], the root, has tag "#root".  Python indexes *)
(* from 0 and TLA+ from 1: Level(stack, l) is Python's stack[l].           *)
(*                                                                         *)
(* The state of a call is the record of its arguments and locals           *)
(* [chars, kwargs, format, i, j, stack, pc, exc]; pc is "scan" inside the  *)
(* while loop, "done" after the return and "raised" when plain_text raised.*)
(* format = None and format = () are both falsy and are both <<>> here.    *)
(***************************************************************************)
NoData == <<>>

Leaf(text) == [tag |-> "#text", data |-> NoData, text |-> text, children |-> <<>>]

NewLevel(at, data) == [tag |-> at, data |-> data, text |-> <<>>, children |-> <<>>]

IsLeaf(node) == node.tag = "#text"

Level(stack, l) == stack[l + 1]

\* stack[-1].append(child)
AppendToTop(stack, child) ==
    [stack EXCEPT ![Len(stack)].children = Append(@, child)]

\* A test that finds every open node to match the format.
node_matches_any(node, format) == TRUE

node_matches_format(node, format) ==
    IF ~format[node.tag] THEN FALSE
    ELSE IF node.tag = "color" THEN node.data.color = format.color
    ELSE TRUE

\* The flush of push_node without the exclusion of the trailing spaces.
FlushUnstripped(st, going_down, text, stripped) ==
    [st EXCEPT !.i = st.j, !.stack = AppendToTop(@, Leaf(NFC(text)))]

\* push_node, lines 202-208: `text` is the pending segment as plain text and
\* `stripped` is text.rstrip()
FlushStripped(st, going_down, text, stripped) ==
    IF going_down /\ Len(stripped) # Len(text)
    THEN [st EXCEPT !.i = st.j - (Len(text) - Len(stripped)),
                    !.stack = AppendToTop(@, Leaf(NFC(stripped)))]
    ELSE [st EXCEPT !.i = st.j,
                    !.stack = AppendToTop(@, Leaf(NFC(text)))]

\* push_node once plain_text has returned r or raised
FlushText(st, going_down, r) ==
    IF r.raised THEN [st EXCEPT !.pc = "raised", !.exc = r.value]
    ELSE FlushStripped(st, going_down, r.value, rstrip(r.value))

\* A push_node that returns without flushing the pending segment.
push_node_skipped(st, going_down) ==
    IF st.pc = "raised" \/ st.j = st.i THEN st ELSE [st EXCEPT !.i = st.j]

push_node(st, going_down) ==
    IF st.pc = "raised" \/ st.j = st.i THEN st
    ELSE FlushText(st, going_down,
                   plain_text(SubSeq(st.chars, st.i + 1, st.j), FALSE, st.kwargs))

\* while len(stack) > lowest: node = tuple(stack.pop()); stack[-1].append(node)
RECURSIVE PopDownTo(_, _)
PopDownTo(stack, lowest) ==
    IF Len(stack) > lowest
    THEN PopDownTo(AppendToTop(SubSeq(stack, 1, Len(stack) - 1), stack[Len(stack)]),
                   lowest)
    ELSE stack

\* collapse_stack after its push_node()
PopLevels(s1, lowest) ==
    IF s1.pc = "raised" THEN s1
    ELSE [s1 EXCEPT !.stack = PopDownTo(@, lowest)]

collapse_stack(st, lowest) == PopLevels(push_node(st, TRUE), lowest)

\* for l in range(len(stack)-1, 0, -1): if not node_matches_format(stack[l],
\* char.format): lowest_collapse = l.  0 stands for None (both are falsy).
RECURSIVE LowestCollapse(_, _, _, _)
LowestCollapse(stack, format, l, lowest_collapse) ==
    IF l < 1 THEN lowest_collapse
    ELSE LowestCollapse(stack, format, l - 1,
                        IF ~node_matches_format(Level(stack, l), format)
                        THEN l ELSE lowest_collapse)

\* if lowest_collapse: collapse_stack(lowest_collapse)
CollapseTo(st, lowest_collapse) ==
    IF lowest_collapse # 0 THEN collapse_stack(st, lowest_collapse) ELSE st

\* IsOpen that never finds the attribute on the stack.
IsOpenNever(stack, at) == FALSE

\* any(level[0] == at for level in stack[1:])
IsOpen(stack, at) == \E l \in 1..(Len(stack) - 1) : Level(stack, l).tag = at

\* data = {}; if at == 'color': data['color'] = ...; stack.append([at, data]),
\* after push_node(False)
OpenNode(s1, at, char) ==
    IF s1.pc = "raised" THEN s1
    ELSE [s1 EXCEPT !.stack =
            Append(@, NewLevel(at, IF at = "color"
                                   THEN [color |-> char.format.color]
                                   ELSE NoData))]

\* for at, v in zip(attrs, new_format): ..., from the k-th attribute on
RECURSIVE OpenAttrs(_, _, _, _)
OpenAttrs(st, char, new_format, k) ==
    IF st.pc = "raised" \/ k > Len(st.kwargs.markup) THEN st
    ELSE IF ~new_format[k] \/ IsOpen(st.stack, st.kwargs.markup[k])
    THEN OpenAttrs(st, char, new_format, k + 1)
    ELSE OpenAttrs(OpenNode(push_node(st, FALSE), st.kwargs.markup[k], char),
                   char, new_format, k + 1)

\* A format check that no character skips.
SkipsFormatCheckNever(char) == FALSE

\* if not char.char.isspace(): ... (a whitespace character skips the check)
SkipsFormatCheck(char) == isspace(char.char)

\* tuple(map(lambda a: getattr(char.format, a), attrs))
NewFormat(attrs, char) == [k \in 1..Len(attrs) |-> char.format[attrs[k]]]

\* format = new_format; j += 1, unless an exception went through
SetFormat(s2, new_format) ==
    IF s2.pc = "raised" THEN s2
    ELSE [s2 EXCEPT !.format = new_format, !.j = @ + 1]

\* The body of `if not char.char.isspace()`
CheckFormat(st, char, new_format) ==
    IF ~(st.format = <<>> \/ new_format # st.format)
    THEN [st EXCEPT !.j = @ + 1]
    ELSE SetFormat(
           OpenAttrs(
             CollapseTo(st, LowestCollapse(st.stack, char.format,
                                           Len(st.stack) - 1, 0)),
             char, new_format, 1),
           new_format)

\* One iteration of `while j < len(chars)` on char = chars[j]
ScanOne(st, char) ==
    IF SkipsFormatCheck(char) THEN [st EXCEPT !.j = @ + 1]
    ELSE CheckFormat(st, char, NewFormat(st.kwargs.markup, char))

LoopBody(st) == ScanOne(st, st.chars[st.j + 1])

\* return Markup(stack[0]), unless an exception went through
ReturnMarkup(s1) ==
    IF s1.pc = "raised" THEN s1 ELSE [s1 EXCEPT !.pc = "done"]

\* if j > i: collapse_stack(1); return Markup(stack[0])
AfterLoop(st) ==
    ReturnMarkup(IF st.j > st.i THEN collapse_stack(st, 1) ELSE st)

FtStart(chars, kwargs) ==
    [chars |-> chars, kwargs |-> kwargs, format |-> <<>>, i |-> 0, j |-> 0,
     stack |-> <<NewLevel("#root", NoData)>>, pc |-> "scan", exc |-> <<>>]

FtStep(st) == IF st.j < Len(st.chars) THEN LoopBody(st) ELSE AfterLoop(st)

\* The whole call: the state at its return or at its exception.
RECURSIVE FtRun(_)
FtRun(st) == IF st.pc = "scan" THEN FtRun(FtStep(st)) ELSE st

\* The Markup returned: Markup(stack[0]).content
Markup(st) == st.stack[1].children

formatted_text(chars, kwargs) == FtRun(FtStart(chars, kwargs))

(***************************************************************************)
(* Specification SpecMarkup: formatted_text on every character sequence of *)
(* at most MaxChars characters of FtAlphabet, for every tuple of tracked   *)
(* attributes of FtMarkups; one step per iteration of the scan loop.       *)
(***************************************************************************)
MaxChars == 4

Plain == DefaultFormat

Italic == Format(NoFont, FALSE, TRUE, FALSE, FALSE)

Sup == Format(NoFont, FALSE, FALSE, TRUE, FALSE)

ItalicSup == Format(NoFont, FALSE, TRUE, TRUE, FALSE)

Lingua == Format("Lingua", FALSE, FALSE, FALSE, FALSE)

FtAlphabet ==
    {Character("a", f) : f \in {Plain, Italic, Sup, ItalicSup}}
    \cup {Character(" ", f) : f \in {Plain, Italic}}
    \cup {Character("e", Plain), Character("U+0301", Plain)}
    \cup {Character("&", Lingua), Character("a", Lingua)}

FtMarkups == {<<>>, <<"italic">>, <<"italic", "sup">>, <<"sup", "italic">>}

SeqsUpTo(S, n) == UNION {[1..m -> S] : m \in 0..n}

FtInit ==
    /\ \E chars \in SeqsUpTo(FtAlphabet, MaxChars), markup \in FtMarkups :
           ft = FtStart(chars, [markup |-> markup])
    /\ nc = Idle
    /\ consumer = Idle
    /\ segmenter = Idle
    /\ report = Idle
    /\ driver = Idle
    /\ prepared = Idle

\* An iteration of the while loop of formatted_text
ScanChar ==
    /\ ft.pc = "scan"
    /\ ft.j < Len(ft.chars)
    /\ ft' = LoopBody(ft)
    /\ UNCHANGED <<nc, consumer, segmenter, report, driver, prepared>>

\* The end of formatted_text: the last flush and the return
FinishScan ==
    /\ ft.pc = "scan"
    /\ ft.j >= Len(ft.chars)
    /\ ft' = AfterLoop(ft)
    /\ UNCHANGED <<nc, consumer, segmenter, report, driver, prepared>>

FtNext == ScanChar \/ FinishScan

SpecMarkup == FtInit /\ [][FtNext]_vars

\* The tags of the open contexts, levels 1..top, bottom first
OpenTags(stack) == [l \in 1..(Len(stack) - 1) |-> Level(stack, l).tag]

\* No path from `node` down to a leaf meets a tag of `seen` or a tag twice.
RECURSIVE NoDuplicateBelow(_, _)
NoDuplicateBelow(node, seen) ==
    \/ IsLeaf(node)
    \/ /\ node.tag \notin seen
       /\ \A k \in 1..Len(node.children) :
            NoDuplicateBelow(node.children[k], seen \cup {node.tag})

\* C1: at every step of the scan the open contexts hold pairwise distinct tags,
\* and no path of the tree built so far (so none of the Markup returned)
\* holds two nodes of the same tag.
C1_NoDuplicateTags ==
    ft.pc # "idle" =>
        /\ \A l1, l2 \in 1..(Len(ft.stack) - 1) :
              l1 # l2 => OpenTags(ft.stack)[l1] # OpenTags(ft.stack)[l2]
        /\ \A l \in 0..(Len(ft.stack) - 1) :
              \A k \in 1..Len(Level(ft.stack, l).children) :
                 NoDuplicateBelow(Level(ft.stack, l).children[k],
                                  {OpenTags(ft.stack)[m] : m \in 1..l})

\* Some node of the forest has a tagged node among its children.
RECURSIVE HasNesting(_)
HasNesting(nodes) ==
    \E k \in 1..Len(nodes) :
        /\ ~IsLeaf(nodes[k])
        /\ \/ \E m \in 1..Len(nodes[k].children) : ~IsLeaf(nodes[k].children[m])
           \/ HasNesting(nodes[k].children)

\* An attribute open at level 1 was revoked under a deeper node of another tag
\* that had to be reopened: the returned Markup holds nested nodes twice.
C1_Witness ==
    /\ ft.pc = "done"
    /\ Len(ft.kwargs.markup) = 2
    /\ HasNesting(Markup(ft))
    /\ Cardinality({k \in 1..Len(Markup(ft)) : ~IsLeaf(Markup(ft)[k])}) >= 2

UniformStyle(chars) ==
    \A k1, k2 \in 1..Len(chars) : chars[k1].format = chars[k2].format

\* C3 as stated: with uniform style and no tracked attribute the Markup is
\* exactly one leaf holding plain_text of the whole input.
C3_SingleLeafIsPlainText ==
    (ft.pc = "done" /\ ft.kwargs.markup = <<>> /\ UniformStyle(ft.chars)) =>
        Markup(ft) = <<Leaf(plain_text(ft.chars, TRUE, ft.kwargs).value)>>

\* C3 (amended): with uniform style and no tracked attribute the Markup of a
\* non-empty input is exactly one leaf holding plain_text of the input with its
\* trailing whitespace removed, and the Markup of the empty input is empty.
C3_SingleLeafIsStrippedPlainText ==
    (ft.pc = "done" /\ ft.kwargs.markup = <<>> /\ UniformStyle(ft.chars)) =>
        IF ft.chars = <<>>
        THEN Markup(ft) = <<>>
        ELSE Markup(ft) =
                <<Leaf(rstrip(plain_text(ft.chars, TRUE, ft.kwargs).value))>>

C3_Witness ==
    /\ ft.pc = "done"
    /\ ft.kwargs.markup = <<>>
    /\ UniformStyle(ft.chars)
    /\ Len(ft.chars) = 4
    /\ isspace(ft.chars[4].char)
    /\ Markup(ft) = <<Leaf(<<"U+00E9", "a">>)>>

RemoveAt(seq, p) == SubSeq(seq, 1, p - 1) \o SubSeq(seq, p + 1, Len(seq))

RECURSIVE WithoutSpaces(_)
WithoutSpaces(text) ==
    IF text = <<>> THEN <<>>
    ELSE (IF isspace(Head(text)) THEN <<>> ELSE <<Head(text)>>)
         \o WithoutSpaces(Tail(text))

\* The tagged structure of a forest: every tagged node with its tag, its data
\* and the structure of its children in order, and every leaf reduced to its
\* non-whitespace text (a leaf of whitespace alone is no part of the
\* structure).
RECURSIVE Structure(_)
Structure(nodes) ==
    IF nodes = <<>> THEN <<>>
    ELSE LET n == Head(nodes)
         IN  (IF IsLeaf(n)
              THEN IF WithoutSpaces(n.text) = <<>> THEN <<>>
                   ELSE <<Leaf(WithoutSpaces(n.text))>>
              ELSE <<[n EXCEPT !.children = Structure(@)]>>)
             \o Structure(Tail(nodes))

InteriorSpaces(chars) ==
    {p \in 2..(Len(chars) - 1) : isspace(chars[p].char)}

\* C4 as stated: removing an interior whitespace character, of any style,
\* leaves the tags, the nesting, the order and the non-whitespace text under
\* each node of the result as they were.
C4_WhitespaceNeutral ==
    ft.pc = "done" =>
        \A p \in InteriorSpaces(ft.chars) :
            LET other == formatted_text(RemoveAt(ft.chars, p), ft.kwargs)
            IN  /\ other.pc = "done"
                /\ Structure(Markup(other)) = Structure(Markup(ft))

\* Structure, with the non-whitespace text of each leaf taken up to canonical
\* composition: removing a space that stood between a base character and a
\* combining mark lets NFC compose them.
RECURSIVE StructureNFC(_)
StructureNFC(nodes) ==
    IF nodes = <<>> THEN <<>>
    ELSE LET n == Head(nodes)
         IN  (IF IsLeaf(n)
              THEN IF WithoutSpaces(n.text) = <<>> THEN <<>>
                   ELSE <<Leaf(NFC(WithoutSpaces(n.text)))>>
              ELSE <<[n EXCEPT !.children = StructureNFC(@)]>>)
             \o StructureNFC(Tail(nodes))

\* C4 (amended): removing an interior whitespace character, of any style, leaves
\* the tags, the nesting and the order of the tagged nodes as they were, and
\* the non-whitespace text under each node the same up to canonical
\* composition; a whitespace character never opens or closes a node.
C4_WhitespaceNeutralNFC ==
    ft.pc = "done" =>
        \A p \in InteriorSpaces(ft.chars) :
            LET other == formatted_text(RemoveAt(ft.chars, p), ft.kwargs)
            IN  /\ other.pc = "done"
                /\ StructureNFC(Markup(other)) = StructureNFC(Markup(ft))

\* An italic node runs across a space whose style differs from both neighbours.
C4_Witness ==
    /\ ft.pc = "done"
    /\ \E p \in InteriorSpaces(ft.chars) :
          /\ ~isspace(ft.chars[p - 1].char) /\ ~isspace(ft.chars[p + 1].char)
          /\ ft.chars[p - 1].format = Italic /\ ft.chars[p + 1].format = Italic
          /\ ft.chars[p].format = Plain
    /\ ft.kwargs.markup = <<"italic">>
    /\ Len(Markup(ft)) = 1
    /\ Markup(ft)[1].tag = "italic"
    /\ Len(Markup(ft)[1].children) = 1
    /\ \E k \in 1..Len(Markup(ft)[1].children[1].text) :
          Markup(ft)[1].children[1].text[k] = " "

(***************************************************************************)
(* chars(pattern, **kwargs) (src/parser/helpers.py:338) and format_pred    *)
(* (src/parser/helpers.py:299).                                            *)
(*                                                                         *)
(* A compiled pattern is a deterministic automaton over codepoints:        *)
(* [source, accept], with PatternStep as its transition function, state 0  *)
(* as its start and Dead as the state no match leaves.                     *)
(* pattern.fullmatch(text, partial=True) of the regex library returns a    *)
(* complete match when the whole text matches, otherwise a partial match   *)
(* when the text can be extended to a match, otherwise None.               *)
(***************************************************************************)
Dead == -1

PatternAlphabet == {"a", "b", " ", LF}

Patterns ==
    { [source |-> ".+",    accept |-> {1}],
      [source |-> "(ab)+", accept |-> {2}],
      [source |-> "a*",    accept |-> {0}],
      [source |-> "a|abb", accept |-> {1, 3}],
      [source |-> "[^b]+", accept |-> {1}] }

PatternStates == {0, 1, 2, 3}

PatternStep(pattern, q, ch) ==
    IF q = Dead THEN Dead
    ELSE CASE pattern.source = ".+"    -> IF ch # LF THEN 1 ELSE Dead
           [] pattern.source = "(ab)+" ->
                 IF q \in {0, 2} /\ ch = "a" THEN 1
                 ELSE IF q = 1 /\ ch = "b" THEN 2
                 ELSE Dead
           [] pattern.source = "a*"    -> IF ch = "a" THEN 0 ELSE Dead
           [] pattern.source = "a|abb" ->
                 IF q = 0 /\ ch = "a" THEN 1
                 ELSE IF q \in {1, 2} /\ ch = "b" THEN q + 1
                 ELSE Dead
           [] pattern.source = "[^b]+" -> IF ch # "b" THEN 1 ELSE Dead

RECURSIVE PatternRun(_, _, _)
PatternRun(pattern, q, text) ==
    IF text = <<>> THEN q
    ELSE PatternRun(pattern, PatternStep(pattern, q, Head(text)), Tail(text))

\* The states from which some text is accepted: `states` and the states that
\* reach it in at most n steps.
RECURSIVE CanAccept(_, _, _)
CanAccept(pattern, states, n) ==
    IF n = 0 THEN states
    ELSE CanAccept(pattern,
                   states \cup {q \in PatternStates : \E ch \in PatternAlphabet :
                                   PatternStep(pattern, q, ch) \in states},
                   n - 1)

\* pattern.fullmatch(text, partial=True): "full" is a match with partial =
\* False, "partial" a match with partial = True, "none" is None.
MatchKind(pattern, q) ==
    IF q \in pattern.accept THEN "full"
    ELSE IF q \in CanAccept(pattern, pattern.accept, Cardinality(PatternStates))
    THEN "partial"
    ELSE "none"

fullmatch(pattern, text) == MatchKind(pattern, PatternRun(pattern, 0, text))

\* ''.join(c.char for c in chars)
RECURSIVE RawText(_)
RawText(chars) ==
    IF chars = <<>> THEN <<>> ELSE <<Head(chars).char>> \o RawText(Tail(chars))

\* format_pred(**kwargs): the predicate on a character
format_pred(kwargs, char) ==
    \/ isspace(char.char)
    \/ /\ ("bold" \in DOMAIN kwargs => (char.format.bold <=> kwargs.bold))
       /\ ("italic" \in DOMAIN kwargs => (char.format.italic <=> kwargs.italic))

NoMatch == [end |-> -1]

Success(next_index, value) ==
    [status |-> "success", index |-> next_index, value |-> value, expected |-> ""]

Failure(index, expected) ==
    [status |-> "failure", index |-> index, value |-> <<>>, expected |-> expected]

\* A consumer that tries the pattern on the empty text before the loop
ConsumerStartMatchingEmpty(stream, index, pattern, kwargs) ==
    [stream |-> stream, index |-> index, pattern |-> pattern, kwargs |-> kwargs,
     chars |-> <<>>,
     last_good_match |-> IF fullmatch(pattern, <<>>) = "full"
                         THEN [end |-> 0] ELSE NoMatch,
     pos |-> index, pc |-> "loop", result |-> Failure(-1, "")]

ConsumerStart(stream, index, pattern, kwargs) ==
    [stream |-> stream, index |-> index, pattern |-> pattern, kwargs |-> kwargs,
     chars |-> <<>>, last_good_match |-> NoMatch, pos |-> index, pc |-> "loop",
     result |-> Failure(-1, "")]

\* A consumer that keeps every match, partial or not, as the last good one.
RecordMatchAlways(st, match) ==
    IF match = "none" THEN [st EXCEPT !.pc = "after"]
    ELSE [st EXCEPT !.last_good_match = [end |-> Len(st.chars)], !.pos = @ + 1]

\* if match is None: break; if not match.partial: last_good_match = match
RecordMatch(st, match) ==
    IF match = "none" THEN [st EXCEPT !.pc = "after"]
    ELSE IF match = "full"
    THEN [st EXCEPT !.last_good_match = [end |-> Len(st.chars)], !.pos = @ + 1]
    ELSE [st EXCEPT !.pos = @ + 1]

\* chars.append(char); text = ...; match = pattern.fullmatch(text, partial=True)
AppendAndMatch(st) == RecordMatch(st, fullmatch(st.pattern, RawText(st.chars)))

\* One iteration of `for char in stream[index:]`
ConsumerIteration(st) ==
    IF ~format_pred(st.kwargs, st.stream[st.pos + 1])
    THEN [st EXCEPT !.pc = "after"]
    ELSE AppendAndMatch([st EXCEPT !.chars = Append(@, st.stream[st.pos + 1])])

\* if last_good_match: ... return Result.success(index + n, chars[:n])
\* else: return Result.failure(index, pattern.pattern)
ConsumerReturn(st) ==
    [st EXCEPT !.pc = "done",
               !.result =
                  IF st.last_good_match # NoMatch
                  THEN Success(st.index + st.last_good_match.end,
                               SubSeq(st.chars, 1, st.last_good_match.end))
                  ELSE Failure(st.index, st.pattern.source)]

\* The parser built by chars() applied to (stream, index): the whole call
RECURSIVE ConsumerRun(_)
ConsumerRun(st) ==
    IF st.pc = "done" THEN st.result
    ELSE IF st.pc = "loop" /\ st.pos < Len(st.stream)
    THEN ConsumerRun(ConsumerIteration(st))
    ELSE ConsumerRun(ConsumerReturn(st))

(***************************************************************************)
(* Specification SpecChars: the parser of chars(pattern, **kwargs) applied *)
(* at every index of every stream of at most MaxStream characters of       *)
(* CsAlphabet, for every pattern of Patterns and style constraint of       *)
(* CsKwargs; one step per iteration of the for loop.                       *)
(***************************************************************************)
MaxStream == 4

Bold == Format(NoFont, TRUE, FALSE, FALSE, FALSE)

CsAlphabet ==
    {Character(ch, f) : ch \in {"a", "b"}, f \in {Plain, Bold}}
    \cup {Character(" ", Plain), Character(LF, Plain)}

CsKwargs == {<<>>, [bold |-> TRUE], [bold |-> FALSE, italic |-> FALSE]}

CsInit ==
    /\ \E stream \in SeqsUpTo(CsAlphabet, MaxStream), pattern \in Patterns,
          kwargs \in CsKwargs :
          \E index \in 0..Len(stream) :
             consumer = ConsumerStart(stream, index, pattern, kwargs)
    /\ nc = Idle
    /\ ft = Idle
    /\ segmenter = Idle
    /\ report = Idle
    /\ driver = Idle
    /\ prepared = Idle

\* An iteration of the for loop of the consumer
ConsumerStep ==
    /\ consumer.pc = "loop"
    /\ consumer.pos < Len(consumer.stream)
    /\ consumer' = ConsumerIteration(consumer)
    /\ UNCHANGED <<nc, ft, segmenter, report, driver, prepared>>

\* The end of the consumer: the loop is over (break or end of stream)
ConsumerFinish ==
    /\ \/ consumer.pc = "after"
       \/ consumer.pc = "loop" /\ consumer.pos >= Len(consumer.stream)
    /\ consumer' = ConsumerReturn(consumer)
    /\ UNCHANGED <<nc, ft, segmenter, report, driver, prepared>>

CsNext == ConsumerStep \/ ConsumerFinish

SpecChars == CsInit /\ [][CsNext]_vars

\* The length of the style-eligible run at `index`: the maximal stretch of
\* characters from there that are whitespace or satisfy the constraints.
RunLength(stream, index, kwargs) ==
    CHOOSE n \in 0..(Len(stream) - index) :
        /\ \A k \in 1..n : format_pred(kwargs, stream[index + k])
        /\ (index + n < Len(stream) =>
               ~format_pred(kwargs, stream[index + n + 1]))

\* The prefix lengths, from `least` on, of the eligible run whose text fully
\* matches the pattern
FullPrefixes(st, least) ==
    {n \in least..RunLength(st.stream, st.index, st.kwargs) :
        fullmatch(st.pattern,
                  RawText(SubSeq(st.stream, st.index + 1, st.index + n))) = "full"}

Longest(lengths) == CHOOSE n \in lengths : \A m \in lengths : m <= n

LongestMatch(st, least) ==
    IF FullPrefixes(st, least) = {}
    THEN st.result = Failure(st.index, st.pattern.source)
    ELSE st.result =
            Success(st.index + Longest(FullPrefixes(st, least)),
                    SubSeq(st.stream, st.index + 1,
                           st.index + Longest(FullPrefixes(st, least))))

RECURSIVE ManyStops(_, _, _, _, _)
ManyStops(stream, index, pattern, kwargs, n) ==
    IF n = 0 THEN -1
    ELSE LET r == ConsumerRun(ConsumerStart(stream, index, pattern, kwargs))
         IN  IF r.status = "failure" THEN index
             ELSE ManyStops(stream, r.index, pattern, kwargs, n - 1)

\* C16: a chars parser never succeeds without consuming input: a success
\* ends after the index it was applied at (and within the stream), also for
\* a pattern that matches the empty string, and at the end of the stream the
\* parser fails; so the parser repeated from there stops, after at most one
\* application per character left and the failing one.
C16_Progress ==
    consumer.pc = "done" =>
        /\ consumer.result.status \in {"success", "failure"}
        /\ consumer.result.status = "success" =>
              /\ consumer.result.index > consumer.index
              /\ consumer.result.index <= Len(consumer.stream)
        /\ consumer.index = Len(consumer.stream) =>
              consumer.result.status = "failure"
        /\ ManyStops(consumer.stream, consumer.index, consumer.pattern,
                     consumer.kwargs,
                     Len(consumer.stream) - consumer.index + 1) >= consumer.index

\* The pattern a*, which matches the empty string, has succeeded in the
\* middle of a stream on the one a before a b: applied again at the b, where
\* the empty string is all it matches, it fails.
C16_Witness ==
    /\ consumer.pc = "done"
    /\ consumer.pattern.source = "a*"
    /\ consumer.index = 1
    /\ consumer.result.status = "success"
    /\ consumer.result.index = 2
    /\ Len(consumer.stream) = 4
    /\ consumer.stream[3].char = "b"
    /\ ManyStops(consumer.stream, consumer.index, consumer.pattern,
                 consumer.kwargs, 2) = 2

(***************************************************************************)
(* extract_characters and extract_entries (src/lexer.py)                   *)
(*                                                                         *)
(* A document is a sequence of paragraphs, a paragraph a sequence of runs, *)
(* a run [text, font, bold, italic, sup, sub] where bold and italic may be *)
(* None (inherited) as in python-docx.                                     *)
(***************************************************************************)
None == "None"

Run(text, font, bold, italic) ==
    [text |-> text, font |-> font, bold |-> bold, italic |-> italic,
     superscript |-> None, subscript |-> None]

\* The values of run.bold and run.italic
True == "True"

False == "False"

\* bool(v) for v in {True, False, None}
bool(v) == v = True

\* The Characters of one run: none when the text is empty
RunCharacters(run) ==
    IF run.text = <<>>
    THEN <<>>
    ELSE [k \in 1..Len(run.text) |->
            Character(run.text[k],
                      Format(run.font, bool(run.bold), bool(run.italic),
                             bool(run.superscript), bool(run.subscript)))]

RECURSIVE CharactersFrom(_, _)
CharactersFrom(runs, k) ==
    IF k > Len(runs)
    THEN <<>>
    ELSE RunCharacters(runs[k]) \o CharactersFrom(runs, k + 1)

\* list(extract_characters(par))
extract_characters(par) == CharactersFrom(par, 1)

CONTINUATORS == {"U+2666", "U+25CF", "U+25CB"}

\* The locals of extract_entries; `yielded` is what the generator has
\* yielded so far: the lists as they are now.  A yielded list is the object
\* buf until buf is bound to another list: `alias` is the index in `yielded`
\* of the list that buf is, 0 when buf was not yielded.  `members` and
\* `origin` are history: the indices of the paragraphs whose characters went
\* into buf and into each yielded buffer.
EntriesStart(doc) ==
    [doc |-> doc, next |-> 1, buf |-> <<>>, alias |-> 0, yielded |-> <<>>,
     members |-> <<>>, origin |-> <<>>, pc |-> "loop"]

\* if buf: yield buf
YieldBuffer(st) ==
    IF st.buf # <<>>
    THEN [st EXCEPT !.yielded = Append(@, st.buf),
                    !.origin = Append(@, st.members),
                    !.alias = Len(st.yielded) + 1]
    ELSE st

\* The list `list` after the in-place append and extend, for each list of
\* `lists`: the one at `alias` is the same object
Mutated(lists, alias, list) ==
    [b \in 1..Len(lists) |-> IF b = alias THEN list ELSE lists[b]]

\* buf.append(Character('\n', Format())); buf.extend(chars)
ContinueEntry(st, chars) ==
    [st EXCEPT !.buf = Append(@, Character(LF, DefaultFormat)) \o chars,
               !.members = Append(@, st.next),
               !.yielded = Mutated(@, st.alias,
                                   Append(st.buf, Character(LF, DefaultFormat))
                                      \o chars),
               !.origin = Mutated(@, st.alias, Append(st.members, st.next))]

\* A test for the start of an entry that does not look at the continuation
\* markers
StartsEntryAnyBold(chars) ==
    chars[1].format.bold

\* chars[0].format.bold and chars[0].char not in CONTINUATORS
StartsEntry(chars) ==
    chars[1].format.bold /\ chars[1].char \notin CONTINUATORS

\* A loop body that yields buf at a short paragraph and goes on with the
\* same list
EntriesParagraphSameList(st, chars) ==
    IF Len(chars) < 3
    THEN YieldBuffer(st)
    ELSE IF StartsEntry(chars)
    THEN [YieldBuffer(st) EXCEPT !.buf = chars, !.members = <<st.next>>,
                                 !.alias = 0]
    ELSE ContinueEntry(st, chars)

\* The body of the for loop for the paragraph whose characters are `chars`;
\* buf = [] and buf = chars bind buf to a list that was not yielded
EntriesParagraph(st, chars) ==
    IF Len(chars) < 3
    THEN [YieldBuffer(st) EXCEPT !.buf = <<>>, !.members = <<>>, !.alias = 0]
    ELSE IF StartsEntry(chars)
    THEN [YieldBuffer(st) EXCEPT !.buf = chars, !.members = <<st.next>>,
                                 !.alias = 0]
    ELSE ContinueEntry(st, chars)

EntriesIteration(st) ==
    [EntriesParagraph(st, extract_characters(st.doc[st.next]))
        EXCEPT !.next = st.next + 1]

\* After the loop: if buf: yield buf
EntriesReturn(st) == [YieldBuffer(st) EXCEPT !.pc = "done"]

(***************************************************************************)
(* SpecEntries: extract_entries on every document of up to MaxParagraphs   *)
(* paragraphs drawn from EeParagraphs, and on ExampleDocument; one step    *)
(* per paragraph.                                                          *)
(***************************************************************************)
MaxParagraphs == 4

Text3 == <<"a", "b", "c">>

EeParagraphs ==
    { <<>>,
      <<Run(<<"a", "b">>, NoFont, None, None)>>,
      <<Run(<<"a">>, NoFont, True, None), Run(<<"b">>, NoFont, False, None)>>,
      <<Run(Text3, NoFont, True, None)>>,
      <<Run(Text3, NoFont, None, True)>>,
      <<Run(<<>>, NoFont, True, None), Run(Text3, NoFont, False, None)>>,
      <<Run(<<"U+2666">>, NoFont, True, None),
        Run(<<"a", "b">>, NoFont, None, None)>>,
      <<Run(<<LF, "a">>, NoFont, None, None),
        Run(<<"b">>, NoFont, True, None)>> }

BoldHeadwordText ==
    <<"B", "o", "l", "d", " ", "h", "e", "a", "d", "w", "o", "r", "d", " ",
      "t", "e", "x", "t">>

ContinuationText ==
    <<"c", "o", "n", "t", "i", "n", "u", "a", "t", "i", "o", "n", " ",
      "t", "e", "x", "t">>

ExampleDocument ==
    << <<Run(<<"A", "B">>, NoFont, None, None)>>,
       <<Run(BoldHeadwordText, NoFont, True, None)>>,
       <<Run(ContinuationText, NoFont, False, None)>>,
       <<Run(<<"X">>, NoFont, None, None)>> >>

EeInit ==
    /\ \E doc \in SeqsUpTo(EeParagraphs, MaxParagraphs) \cup {ExampleDocument} :
          segmenter = EntriesStart(doc)
    /\ nc = Idle
    /\ ft = Idle
    /\ consumer = Idle
    /\ report = Idle
    /\ driver = Idle
    /\ prepared = Idle

\* for par in doc.paragraphs: one iteration
NextParagraph ==
    /\ segmenter.pc = "loop"
    /\ segmenter.next <= Len(segmenter.doc)
    /\ segmenter' = EntriesIteration(segmenter)
    /\ UNCHANGED <<nc, ft, consumer, report, driver, prepared>>

\* The loop is over
EndOfDocument ==
    /\ segmenter.pc = "loop"
    /\ segmenter.next > Len(segmenter.doc)
    /\ segmenter' = EntriesReturn(segmenter)
    /\ UNCHANGED <<nc, ft, consumer, report, driver, prepared>>

EeNext == NextParagraph \/ EndOfDocument

SpecEntries == EeInit /\ [][EeNext]_vars

\* The characters of paragraph p of the document
ParagraphChars(st, p) == extract_characters(st.doc[p])

Qualifies(st, p) == Len(ParagraphChars(st, p)) >= 3

\* A qualifying paragraph that continues an entry: its first character is
\* not bold, or is one of the continuation markers
IsContinuation(st, p) ==
    \/ ~ParagraphChars(st, p)[1].format.bold
    \/ ParagraphChars(st, p)[1].char \in CONTINUATORS

InBuffer(st, b, p) == \E k \in 1..Len(st.origin[b]) : st.origin[b][k] = p

SameBuffer(st, p, q) ==
    \E b \in 1..Len(st.origin) : InBuffer(st, b, p) /\ InBuffer(st, b, q)

\* p < q qualify and no qualifying paragraph lies between them
Neighbours(st, p, q) ==
    /\ p < q
    /\ Qualifies(st, p)
    /\ Qualifies(st, q)
    /\ \A r \in (p + 1)..(q - 1) : ~Qualifies(st, r)

ExampleBuffer ==
    [k \in 1..Len(BoldHeadwordText) |->
        Character(BoldHeadwordText[k], Bold)]
    \o <<Character(LF, DefaultFormat)>>
    \o [k \in 1..Len(ContinuationText) |->
        Character(ContinuationText[k], Plain)]

\* C5: when extract_entries is over, two qualifying paragraphs p, q with no
\* qualifying paragraph between them are in the same buffer exactly when no
\* short paragraph lies between them and q is a continuation; a paragraph
\* that starts with a bold character other than a continuation marker is the
\* first paragraph of its buffer; and the example document yields exactly
\* the one buffer "Bold headword text" + newline + "continuation text".
C5_Grouping ==
    segmenter.pc = "done" =>
        /\ \A p, q \in 1..Len(segmenter.doc) :
              Neighbours(segmenter, p, q) =>
                 (SameBuffer(segmenter, p, q)
                    <=> /\ q = p + 1
                        /\ IsContinuation(segmenter, q))
        /\ \A p \in 1..Len(segmenter.doc) :
              Qualifies(segmenter, p) /\ ~IsContinuation(segmenter, p) =>
                 \E b \in 1..Len(segmenter.origin) :
                    /\ segmenter.origin[b][1] = p
                    /\ \A c \in 1..Len(segmenter.origin) :
                          InBuffer(segmenter, c, p) => c = b
        /\ segmenter.doc = ExampleDocument =>
              segmenter.yielded = <<ExampleBuffer>>

\* The example document has been segmented
C5_Witness ==
    /\ segmenter.pc = "done"
    /\ segmenter.doc = ExampleDocument
    /\ segmenter.origin = << <<2, 3>> >>

RECURSIVE JoinedFrom(_, _, _)
\* The paragraphs ps[k..] of the document joined by synthetic newlines
JoinedFrom(st, ps, k) ==
    IF k > Len(ps)
    THEN <<>>
    ELSE IF k = Len(ps)
    THEN ParagraphChars(st, ps[k])
    ELSE ParagraphChars(st, ps[k]) \o <<Character(LF, DefaultFormat)>>
            \o JoinedFrom(st, ps, k + 1)

\* C6: every buffer yielded is k >= 1 paragraphs joined by single synthetic
\* newlines: k-1 newlines, one between each two consecutive paragraphs, none
\* before the first.
C6_JoinedByNewlines ==
    \A b \in 1..Len(segmenter.yielded) :
        /\ Len(segmenter.origin[b]) >= 1
        /\ segmenter.yielded[b] = JoinedFrom(segmenter, segmenter.origin[b], 1)

\* Where paragraph p went: the places (b, k) with p the k-th paragraph of the
\* yielded buffer b
Places(st, p) ==
    {bk \in UNION {{<<b, k>> : k \in 1..Len(st.origin[b])} :
                      b \in 1..Len(st.origin)} :
        st.origin[bk[1]][bk[2]] = p}

\* The k-th paragraph of buffer b and what follows it take the end of the
\* buffer: the number of characters before it
SliceStart(st, b, k) ==
    Len(st.yielded[b]) - Len(JoinedFrom(st, st.origin[b], k))

\* The characters of the k-th paragraph of buffer b stand there in a row
IsSlice(st, b, k) ==
    /\ SliceStart(st, b, k) >= 0
    /\ SubSeq(st.yielded[b], SliceStart(st, b, k) + 1,
              SliceStart(st, b, k)
                 + Len(ParagraphChars(st, st.origin[b][k])))
          = ParagraphChars(st, st.origin[b][k])

\* Outside the slices of its paragraphs buffer b holds synthetic newlines
\* only: one before each paragraph after the first, at most one before the
\* first
OnlyNewlinesBetween(st, b) ==
    /\ SliceStart(st, b, 1) <= 1
    /\ \A k \in 1..Len(st.origin[b]) :
          SliceStart(st, b, k) > 0 =>
             st.yielded[b][SliceStart(st, b, k)] = Character(LF, DefaultFormat)

\* The paragraphs are in the order of the document, in each buffer and from
\* one buffer to the next
InDocumentOrder(st) ==
    /\ \A b \in 1..Len(st.origin) :
          \A k \in 1..(Len(st.origin[b]) - 1) :
             st.origin[b][k] < st.origin[b][k + 1]
    /\ \A b \in 1..(Len(st.origin) - 1) :
          st.origin[b][Len(st.origin[b])] < st.origin[b + 1][1]

Conserved(st) ==
    /\ \A b \in 1..Len(st.yielded) :
          /\ st.yielded[b] # <<>>
          /\ Len(st.origin[b]) >= 1
          /\ \A k \in 1..Len(st.origin[b]) : IsSlice(st, b, k)
          /\ OnlyNewlinesBetween(st, b)
    /\ InDocumentOrder(st)
    /\ \A p \in 1..Len(st.doc) :
          /\ Cardinality(Places(st, p)) <= 1
          /\ ~Qualifies(st, p) => Places(st, p) = {}
          /\ (st.pc = "done" /\ Qualifies(st, p)) =>
                Cardinality(Places(st, p)) = 1

\* What was yielded is the same after a step
YieldedKept(before, after) ==
    /\ Len(after.yielded) >= Len(before.yielded)
    /\ \A b \in 1..Len(before.yielded) : after.yielded[b] = before.yielded[b]

\* C17: extract_entries conserves content.  Every yielded buffer is not
\* empty and holds the characters of its paragraphs as contiguous slices, in
\* the order of the document within and across buffers, and besides them
\* synthetic newlines only; a paragraph shorter than three characters is in
\* no buffer and, once the generator is exhausted, every paragraph of three
\* or more characters is in exactly one; and no step changes a buffer that
\* was yielded.
C17_Conservation ==
    /\ [](segmenter.pc \in {"loop", "done"} => Conserved(segmenter))
    /\ [][segmenter.pc = "loop" => YieldedKept(segmenter, segmenter')]_vars

\* Two buffers were yielded: the first, which starts with a newline, at a
\* short paragraph that is not empty, the second, of two paragraphs, at the
\* end
C17_Witness ==
    /\ segmenter.pc = "done"
    /\ Len(segmenter.doc) = 4
    /\ segmenter.origin = << <<1>>, <<3, 4>> >>
    /\ ~Qualifies(segmenter, 2)
    /\ ParagraphChars(segmenter, 2) # <<>>
    /\ segmenter.yielded[1][1] = Character(LF, DefaultFormat)
    /\ segmenter.alias = 2

(***************************************************************************)
(* report_error (src/main.py)                                              *)
(***************************************************************************)
LINE_WIDTH == 72

Max(a, b) == IF a >= b THEN a ELSE b

Min(a, b) == IF a <= b THEN a ELSE b

\* A ParseError: the stream, the index of the failure, what was expected
ParseError(stream, index, expected) ==
    [stream |-> stream, index |-> index, expected |-> expected]

\* The locals of report_error(err); -1 stands for a local not yet assigned
ReportStart(err) ==
    [err |-> err, total_length |-> Len(err.stream), left |-> -1, right |-> -1,
     logged |-> <<>>, pc |-> "left"]

\* A window start that is not clamped to the end of the stream
WindowLeftUnclamped(index, total_length) ==
    Max(index - LINE_WIDTH \div 2, 0)

\* left = max(min(err.index - LINE_WIDTH//2, total_length - LINE_WIDTH), 0)
WindowLeft(index, total_length) ==
    Max(Min(index - LINE_WIDTH \div 2, total_length - LINE_WIDTH), 0)

\* right = min(max(left+LINE_WIDTH, err.index + LINE_WIDTH//2), total_length)
WindowRight(left, index, total_length) ==
    Min(Max(left + LINE_WIDTH, index + LINE_WIDTH \div 2), total_length)

\* The record of log.error('Expected %s\n  %s\n  %s^', err.expected, text,
\* ' '*(err.index-left)) with text the raw codepoints of err.stream[left:right]
ErrorRecord(err, left, right) ==
    [level |-> "ERROR", expected |-> err.expected,
     text |-> RawText(SubSeq(err.stream, left + 1, right)),
     caret |-> err.index - left]

(***************************************************************************)
(* SpecReport: report_error on a ParseError at every index of every stream *)
(* of up to MaxStreamLen characters.                                       *)
(***************************************************************************)
MaxStreamLen == 80

\* The stream of n characters "a", "b", "a", ...
StreamOfLength(n) ==
    [k \in 1..n |-> Character(IF k % 2 = 1 THEN "a" ELSE "b", Plain)]

ReInit ==
    /\ \E n \in 0..MaxStreamLen :
          \E index \in 0..n :
             report = ReportStart(ParseError(StreamOfLength(n), index, "a+"))
    /\ nc = Idle
    /\ ft = Idle
    /\ consumer = Idle
    /\ segmenter = Idle
    /\ driver = Idle
    /\ prepared = Idle

ComputeLeft ==
    /\ report.pc = "left"
    /\ report' = [report EXCEPT
          !.left = WindowLeft(report.err.index, report.total_length),
          !.pc = "right"]
    /\ UNCHANGED <<nc, ft, consumer, segmenter, driver, prepared>>

ComputeRight ==
    /\ report.pc = "right"
    /\ report' = [report EXCEPT
          !.right = WindowRight(report.left, report.err.index,
                                report.total_length),
          !.pc = "log"]
    /\ UNCHANGED <<nc, ft, consumer, segmenter, driver, prepared>>

LogError ==
    /\ report.pc = "log"
    /\ report' = [report EXCEPT
          !.logged = <<ErrorRecord(report.err, report.left, report.right)>>,
          !.pc = "done"]
    /\ UNCHANGED <<nc, ft, consumer, segmenter, driver, prepared>>

ReNext == ComputeLeft \/ ComputeRight \/ LogError

SpecReport == ReInit /\ [][ReNext]_vars

\* C10: for a stream of length n and 0 <= index <= n, report_error computes
\* 0 <= left <= index <= right <= n with right - left = min(LINE_WIDTH, n);
\* the caret offset index - left lies in [0, right - left]; and when the
\* index is at least LINE_WIDTH/2 away from both ends, left = index -
\* LINE_WIDTH/2.
C10_Window ==
    report.pc = "done" =>
        /\ 0 <= report.left
        /\ report.left <= report.err.index
        /\ report.err.index <= report.right
        /\ report.right <= Len(report.err.stream)
        /\ report.right - report.left
              = Min(LINE_WIDTH, Len(report.err.stream))
        /\ report.logged[1].caret \in 0..(report.right - report.left)
        /\ Len(report.logged[1].text) = report.right - report.left
        /\ (/\ report.err.index >= LINE_WIDTH \div 2
            /\ Len(report.err.stream) - report.err.index >= LINE_WIDTH \div 2)
              => report.left = report.err.index - LINE_WIDTH \div 2

\* A window cut out of a longer stream, the failure near the end of it
C10_Witness ==
    /\ report.pc = "done"
    /\ Len(report.err.stream) > LINE_WIDTH
    /\ Len(report.err.stream) - report.err.index < LINE_WIDTH \div 2
    /\ report.left > 0
    /\ report.logged[1].caret > LINE_WIDTH \div 2

(***************************************************************************)
(* The driver (src/main.py, src/logger.py): worker_fn, the two execution   *)
(* modes and the logging of the workers.                                   *)
(*                                                                         *)
(* The grammar that defines parser.entry is read from a Lissp file at run  *)
(* time; `entry` below is a grammar of one rule built from the helpers:    *)
(*    entry = chars(".+", bold=True).map(plain_text(script="Cyrl"))        *)
(* and parse_fn is parser.entry.parse, which also expects the end of the   *)
(* stream.  The outcome of parse_fn is [kind, value, logs]: kind "result"  *)
(* with the value returned, or "ParseError" or "Exception" with the        *)
(* exception raised, and the log records emitted on the way.               *)
(***************************************************************************)
BUFFER_SIZE == 100

Outcome(kind, value, logs) == [kind |-> kind, value |-> value, logs |-> logs]

\* .map(plain_text), then the end of the stream
EntryText(stream, r, text) ==
    IF text.raised
    THEN Outcome("Exception", text.value, text.logs)
    ELSE IF r.index < Len(stream)
    THEN Outcome("ParseError", ParseError(stream, r.index, "EOF"), text.logs)
    ELSE Outcome("result", text.value, text.logs)

EntryChars(stream, r) ==
    IF r.status = "failure"
    THEN Outcome("ParseError", ParseError(stream, r.index, r.expected), <<>>)
    ELSE EntryText(stream, r, plain_text(r.value, TRUE, [script |-> "Cyrl"]))

entry(stream) ==
    EntryChars(stream,
               ConsumerRun(ConsumerStart(stream, 0,
                                         [source |-> ".+", accept |-> {1}],
                                         [bold |-> TRUE])))

parse_fn(stream) == entry(stream)

\* report_error(err): the record it logs
ReportWindow(err, left) ==
    ErrorRecord(err, left, WindowRight(left, err.index, Len(err.stream)))

report_error(err) == ReportWindow(err, WindowLeft(err.index, Len(err.stream)))

\* The records logged by worker_fn(entry), in order: those of parse_fn, then
\* that of report_error when a ParseError is caught
RecordsOf(outcome) ==
    IF outcome.kind = "ParseError"
    THEN Append(outcome.logs, report_error(outcome.value))
    ELSE outcome.logs

\* What worker_fn hands back: the result, None after a ParseError, or the
\* exception it lets through
Returned(task, outcome) ==
    [task |-> task,
     kind |-> IF outcome.kind = "ParseError" THEN "None" ELSE outcome.kind,
     value |-> IF outcome.kind = "ParseError" THEN <<>> ELSE outcome.value]

\* `if result:` for what worker_fn returned
Truthy(r) == r.kind = "result" /\ r.value # <<>>

\* A process: its module global logger.entry_prefix, the entry it is in
\* worker_fn for (task, 0 when in none), the records still to be logged
\* there and the outcome of parse_fn
Process ==
    [pc |-> "idle", entry_prefix |-> <<>>, task |-> 0, pending |-> <<>>,
     outcome |-> Outcome("None", <<>>, <<>>)]

\* A worker_fn that leaves the prefix of the process as it was
KeepPrefix(proc, stream) == proc

\* logger.entry_prefix = ''.join(map(lambda c: c.char, entry[:10]))
SetPrefix(proc, stream) ==
    [proc EXCEPT !.entry_prefix =
        RawText(SubSeq(stream, 1, Min(10, Len(stream))))]

Parse(proc, task, outcome) ==
    [proc EXCEPT !.pc = "parsing", !.task = task, !.outcome = outcome,
                 !.pending = RecordsOf(outcome)]

\* worker_fn(entry) up to its return
worker_fn(proc, task, stream) ==
    Parse(SetPrefix(proc, stream), task, parse_fn(stream))

\* EntryFilter.filter and QueueHandler.emit in process w: the record gets the
\* prefix of that process and is put on the log queue.  `task` is history:
\* the entry the process was in when it logged.
Emit(d, w) ==
    [d EXCEPT !.log_queue =
                 Append(@, [prefix |-> d.procs[w].entry_prefix,
                            task |-> d.procs[w].task,
                            record |-> Head(d.procs[w].pending)]),
              !.procs[w].pending = Tail(@)]

Procs == {"main", "w1", "w2"}

Workers == {"w1", "w2"}

\* The state of a run: `next` is the next entry to hand out, `results` the
\* queue of the pool's results, `received` how many the main loop has taken
Execution(mode, entries) ==
    [mode |-> mode, entries |-> entries, next |-> 1,
     procs |-> [w \in Procs |-> Process],
     log_queue |-> <<>>, stderr |-> <<>>,
     results |-> <<>>, received |-> 0,
     counter |-> 0, buffer |-> <<>>, printed |-> <<>>, output |-> <<>>,
     main_pc |-> "loop"]

\* dump_buffer()
dump_buffer(d) ==
    [d EXCEPT !.printed = Append(@, d.counter), !.output = @ \o d.buffer]

\* A dump of the full buffer that does not clear it
DumpWhenFullKeep(d) ==
    IF Len(d.buffer) >= BUFFER_SIZE THEN dump_buffer(d) ELSE d

\* if len(buffer) >= BUFFER_SIZE: dump_buffer(); buffer.clear()
DumpWhenFull(d) ==
    IF Len(d.buffer) >= BUFFER_SIZE
    THEN [dump_buffer(d) EXCEPT !.buffer = <<>>]
    ELSE d

\* The body of `for result in pool.imap_unordered(...)` for the result r; a
\* result that is an exception is raised by the iterator
Receive(d, r) ==
    IF r.kind = "Exception"
    THEN [d EXCEPT !.main_pc = "raised"]
    ELSE IF Truthy(r)
    THEN DumpWhenFull([d EXCEPT !.counter = @ + 1, !.buffer = Append(@, r)])
    ELSE d

\* if buffer: dump_buffer()
DumpRest(d) == IF d.buffer # <<>> THEN dump_buffer(d) ELSE d

\* The body of the loop of execute_single_process after worker_fn(entry)
SingleResult(d, r) ==
    IF r.kind = "Exception"
    THEN [d EXCEPT !.main_pc = "aborted"]
    ELSE IF Truthy(r)
    THEN [d EXCEPT !.output = Append(@, r)]
    ELSE d

(***************************************************************************)
(* SpecDriver: a run of execute_single_process or of execute_multi_process *)
(* with two workers on up to MaxEntries entries of DrEntries; the workers, *)
(* the main loop and the log listener interleave.                          *)
(***************************************************************************)
MaxEntries == 2

BoldLingua == Format("Lingua", TRUE, FALSE, FALSE, FALSE)

Cyrillic11 ==
    [k \in 1..11 |-> Character(IF k = 11 THEN "c" ELSE "U+0430", Bold)]

DrEntries ==
    { <<Character("c", Bold)>>,
      <<Character("a", Plain)>>,
      <<Character("c", Bold), Character("a", Plain)>>,
      <<Character("a", BoldLingua)>>,
      Cyrillic11 }

DrInit ==
    /\ \E mode \in {"single", "multi"},
          entries \in SeqsUpTo(DrEntries, MaxEntries) :
          driver = Execution(mode, entries)
    /\ nc = Idle
    /\ ft = Idle
    /\ consumer = Idle
    /\ segmenter = Idle
    /\ report = Idle
    /\ prepared = Idle

\* The processes that run worker_fn, while they are alive
Runs(w) ==
    \/ driver.mode = "single" /\ w = "main" /\ driver.main_pc = "loop"
    \/ driver.mode = "multi" /\ w \in Workers
          /\ driver.main_pc \in {"loop", "raised"}

\* Process w is handed the next entry and enters worker_fn
TakeEntry(w) ==
    /\ Runs(w)
    /\ driver.procs[w].pc = "idle"
    /\ driver.next <= Len(driver.entries)
    /\ driver' = [driver EXCEPT
          !.procs[w] = worker_fn(@, driver.next, driver.entries[driver.next]),
          !.next = @ + 1]
    /\ UNCHANGED <<nc, ft, consumer, segmenter, report, prepared>>

\* Process w logs its next record
EmitRecord(w) ==
    /\ Runs(w)
    /\ driver.procs[w].pc = "parsing"
    /\ driver.procs[w].pending # <<>>
    /\ driver' = Emit(driver, w)
    /\ UNCHANGED <<nc, ft, consumer, segmenter, report, prepared>>

\* worker_fn is over in the worker w: the pool queues what it returned or
\* raised
ReturnToPool(w) ==
    /\ driver.mode = "multi"
    /\ Runs(w)
    /\ driver.procs[w].pc = "parsing"
    /\ driver.procs[w].pending = <<>>
    /\ driver' = [driver EXCEPT
          !.results = Append(@, Returned(driver.procs[w].task,
                                         driver.procs[w].outcome)),
          !.procs[w].pc = "idle",
          !.procs[w].task = 0]
    /\ UNCHANGED <<nc, ft, consumer, segmenter, report, prepared>>

\* worker_fn is over in execute_single_process
ReturnToLoop ==
    /\ driver.mode = "single"
    /\ Runs("main")
    /\ driver.procs["main"].pc = "parsing"
    /\ driver.procs["main"].pending = <<>>
    /\ driver' = SingleResult(
          [driver EXCEPT !.procs["main"].pc = "idle",
                         !.procs["main"].task = 0],
          Returned(driver.procs["main"].task, driver.procs["main"].outcome))
    /\ UNCHANGED <<nc, ft, consumer, segmenter, report, prepared>>

\* execute_single_process returns
FinishSingle ==
    /\ driver.mode = "single"
    /\ driver.main_pc = "loop"
    /\ driver.procs["main"].pc = "idle"
    /\ driver.next > Len(driver.entries)
    /\ driver' = [driver EXCEPT !.main_pc = "done"]
    /\ UNCHANGED <<nc, ft, consumer, segmenter, report, prepared>>

\* The main loop of execute_multi_process takes the next result
ReceiveResult ==
    /\ driver.mode = "multi"
    /\ driver.main_pc = "loop"
    /\ driver.results # <<>>
    /\ driver' = Receive(
          [driver EXCEPT !.results = Tail(@), !.received = @ + 1],
          Head(driver.results))
    /\ UNCHANGED <<nc, ft, consumer, segmenter, report, prepared>>

\* The iterator is exhausted: the pool is left and the rest is dumped
FinishMulti ==
    /\ driver.mode = "multi"
    /\ driver.main_pc = "loop"
    /\ driver.received = Len(driver.entries)
    /\ driver' = [DumpRest(driver) EXCEPT !.main_pc = "done"]
    /\ UNCHANGED <<nc, ft, consumer, segmenter, report, prepared>>

\* The exception leaves the `with Pool` block: the workers are terminated
\* and execute_multi_process is left with the exception
TerminatePool ==
    /\ driver.mode = "multi"
    /\ driver.main_pc = "raised"
    /\ driver' = [driver EXCEPT !.main_pc = "aborted"]
    /\ UNCHANGED <<nc, ft, consumer, segmenter, report, prepared>>

\* The QueueListener writes the next record of the log queue to stderr
Listen ==
    /\ driver.log_queue # <<>>
    /\ driver' = [driver EXCEPT !.stderr = Append(@, Head(driver.log_queue)),
                                !.log_queue = Tail(@)]
    /\ UNCHANGED <<nc, ft, consumer, segmenter, report, prepared>>

DrNext ==
    \/ \E w \in Procs : TakeEntry(w) \/ EmitRecord(w) \/ ReturnToPool(w)
    \/ ReturnToLoop
    \/ FinishSingle
    \/ ReceiveResult
    \/ FinishMulti
    \/ TerminatePool
    \/ Listen

SpecDriver == DrInit /\ [][DrNext]_vars

\* The run is over: the execute function has returned or was left by an
\* exception
Finished == driver.main_pc \in {"done", "aborted"}

\* The entry parses on its own, to a result that is output
ParsesAlone(stream) ==
    parse_fn(stream).kind = "result" /\ parse_fn(stream).value # <<>>

IsOutput(i) ==
    \E k \in 1..Len(driver.output) :
        /\ driver.output[k].task = i
        /\ driver.output[k].value = parse_fn(driver.entries[i]).value

\* C8: when a run is over, in either mode, every entry that parses on its own
\* has been parsed and output, whatever happened to the other entries (a
\* parse failure or a glyph error of normalize_char).
C8_FailureIsolation ==
    Finished =>
        \A i \in 1..Len(driver.entries) :
            ParsesAlone(driver.entries[i]) => IsOutput(i)

\* The first 10 characters of entry i
PrefixOfEntry(i) ==
    RawText(SubSeq(driver.entries[i], 1, Min(10, Len(driver.entries[i]))))

Attributed(rec) == rec.task >= 1 /\ rec.prefix = PrefixOfEntry(rec.task)

\* C9: every record logged while a process is in worker_fn for entry E (a
\* normalization record or the report of the parse error) carries the first
\* 10 characters of E as its prefix, on the log queue and once written by the
\* listener, under every interleaving of the workers and the listener.
C9_LogAttribution ==
    /\ \A k \in 1..Len(driver.log_queue) : Attributed(driver.log_queue[k])
    /\ \A k \in 1..Len(driver.stderr) : Attributed(driver.stderr[k])

\* Two workers in worker_fn at once, their records interleaved: the listener
\* has written a record of the later entry, one of more than 10 characters,
\* before the error report of the earlier entry, which has another prefix.
C9_Witness ==
    /\ driver.mode = "multi"
    /\ driver.procs["w1"].pc = "parsing"
    /\ driver.procs["w2"].pc = "parsing"
    /\ \E j, k \in 1..Len(driver.stderr) :
          /\ j < k
          /\ driver.stderr[j].task > driver.stderr[k].task
          /\ driver.stderr[j].prefix # driver.stderr[k].prefix
          /\ driver.stderr[k].record.level = "ERROR"
          /\ Len(driver.entries[driver.stderr[j].task]) > 10

(***************************************************************************)
(* SpecBuffer: execute_multi_process around BUFFER_SIZE results.  The run  *)
(* starts where one worker has parsed the first k entries, each to a       *)
(* result, and the main loop has received them: they are in the buffer,    *)
(* which was never full.  Up to MaxEntries more entries follow, parsed by  *)
(* the two workers while the main loop and the listener go on, so that the *)
(* buffer stays below BUFFER_SIZE, gets full with the last result, or gets *)
(* full and is filled again.                                               *)
(***************************************************************************)
BfParsed == <<Character("U+0430", Bold)>>

BfEntries ==
    { BfParsed,
      <<Character("a", Plain)>>,
      <<Character("a", BoldLingua)>> }

\* The run after the first k of `entries` went through worker w1 and the
\* main loop
Buffered(k, entries) ==
    [Execution("multi", entries) EXCEPT
        !.next = k + 1,
        !.received = k,
        !.counter = k,
        !.buffer = [i \in 1..k |-> Returned(i, parse_fn(entries[i]))],
        !.procs["w1"] = IF k = 0 THEN @ ELSE SetPrefix(@, entries[k])]

BfInit ==
    /\ \E k \in (BUFFER_SIZE - MaxEntries)..(BUFFER_SIZE - 1),
          rest \in SeqsUpTo(BfEntries, MaxEntries) :
          driver = Buffered(k, [i \in 1..k |-> BfParsed] \o rest)
    /\ nc = Idle
    /\ ft = Idle
    /\ consumer = Idle
    /\ segmenter = Idle
    /\ report = Idle
    /\ prepared = Idle

BfNext ==
    \/ \E w \in Workers : TakeEntry(w) \/ EmitRecord(w) \/ ReturnToPool(w)
    \/ ReceiveResult
    \/ FinishMulti
    \/ TerminatePool
    \/ Listen

SpecBuffer == BfInit /\ [][BfNext]_vars

\* How many times entry i was passed to output_fn
TimesOutput(i) ==
    Cardinality({k \in 1..Len(driver.output) : driver.output[k].task = i})

\* What was passed to output_fn for entry i is what its worker returned
OutputIsResult ==
    \A k \in 1..Len(driver.output) :
        driver.output[k] =
            Returned(driver.output[k].task,
                     parse_fn(driver.entries[driver.output[k].task]))

\* C15: when execute_multi_process returns (no worker has raised), every
\* entry whose worker returned a truthy result has been passed to output_fn
\* exactly once and no other entry has, whatever the order in which the
\* workers completed and whether the results were fewer than, as many as or
\* more than BUFFER_SIZE; before that no result is output twice.
C15_OutputExactlyOnce ==
    /\ \A i \in 1..Len(driver.entries) : TimesOutput(i) <= 1
    /\ OutputIsResult
    /\ (driver.mode = "multi" /\ driver.main_pc = "done") =>
          \A i \in 1..Len(driver.entries) :
              TimesOutput(i) =
                  IF Truthy(Returned(i, parse_fn(driver.entries[i])))
                  THEN 1 ELSE 0

\* The buffer got full and was dumped, one more result came after it and was
\* dumped at the end, and the results did not come in the order of the
\* entries.
C15_Witness ==
    /\ driver.mode = "multi"
    /\ driver.main_pc = "done"
    /\ Len(driver.printed) = 2
    /\ driver.printed[1] = BUFFER_SIZE
    /\ Len(driver.output) = BUFFER_SIZE + 1
    /\ \E k \in 1..(Len(driver.output) - 1) :
          driver.output[k].task > driver.output[k + 1].task

(***************************************************************************)
(* prepare_for_output (src/output.py)                                      *)
(*                                                                         *)
(* A Python value is [type, val]: a dict is the sequence of its (k, v)     *)
(* pairs in insertion order, a list the sequence of its items, a str a     *)
(* text, None has no value.  A key is a text.                              *)
(***************************************************************************)
PyNone == [type |-> "NoneType", val |-> <<>>]

PyInt(n) == [type |-> "int", val |-> n]

PyStr(text) == [type |-> "str", val |-> text]

PyList(items) == [type |-> "list", val |-> items]

PyDict(pairs) == [type |-> "dict", val |-> pairs]

Pair(k, v) == [k |-> k, v |-> v]

\* bool(v): an empty dict, list or str, 0 and None are falsy
truthy(v) ==
    CASE v.type = "NoneType" -> FALSE
      [] v.type = "int"      -> v.val # 0
      [] OTHER               -> v.val # <<>>

\* k.startswith('_')
startswith_underscore(k) == k # <<>> /\ k[1] = "_"

DEFAULT_ORDER == 100

FIELD_ORDER ==
    [k \in {<<"h", "e", "a", "d", "w", "o", "r", "d">>,
            <<"d", "e", "r", "i", "v", "a", "t", "i", "o", "n">>,
            <<"l", "a", "b", "e", "l">>,
            <<"s", "e", "n", "s", "e", "s">>,
            <<"t", "y", "p", "e">>,
            <<"t", "r", "a", "n", "s", "l", "a", "t", "i", "o", "n">>,
            <<"s", "o", "u", "r", "c", "e">>,
            <<"t", "e", "x", "t">>,
            <<"v", "a", "l", "u", "e">>,
            <<"h", "o", "m", "o", "n", "y", "m", "_", "i", "d">>,
            <<"a", "s", "s", "u", "m", "e", "d">>} |->
        CASE k = <<"h", "e", "a", "d", "w", "o", "r", "d">> -> 0
          [] k = <<"d", "e", "r", "i", "v", "a", "t", "i", "o", "n">> -> 1
          [] k = <<"l", "a", "b", "e", "l">> -> 2
          [] k = <<"s", "e", "n", "s", "e", "s">> -> 3
          [] k = <<"t", "y", "p", "e">> -> 0
          [] k = <<"t", "r", "a", "n", "s", "l", "a", "t", "i", "o", "n">> -> 50
          [] k = <<"s", "o", "u", "r", "c", "e">> -> 0
          [] k = <<"t", "e", "x", "t">> -> 30
          [] k = <<"v", "a", "l", "u", "e">> -> 10
          [] k = <<"h", "o", "m", "o", "n", "y", "m", "_", "i", "d">> -> 20
          [] k = <<"a", "s", "s", "u", "m", "e", "d">> -> 30]

\* FIELD_ORDER.get(kv[0], DEFAULT_ORDER)
SortKey(kv) ==
    IF kv.k \in DOMAIN FIELD_ORDER THEN FIELD_ORDER[kv.k] ELSE DEFAULT_ORDER

\* The place of one more pair in a sorted list: after the pairs that do not
\* sort after it (list.sort is stable)
RECURSIVE InsertSorted(_, _)
InsertSorted(sorted, kv) ==
    IF sorted = <<>> THEN <<kv>>
    ELSE IF SortKey(sorted[Len(sorted)]) <= SortKey(kv)
    THEN Append(sorted, kv)
    ELSE Append(InsertSorted(SubSeq(sorted, 1, Len(sorted) - 1), kv),
                sorted[Len(sorted)])

\* pairs.sort(key=...)
RECURSIVE SortPairs(_, _)
SortPairs(sorted, pairs) ==
    IF pairs = <<>> THEN sorted
    ELSE SortPairs(InsertSorted(sorted, Head(pairs)), Tail(pairs))

\* dict(pairs): a later pair of the same key replaces the value of the first
RECURSIVE DictOf(_, _)
DictOf(d, pairs) ==
    IF pairs = <<>> THEN d
    ELSE IF \E i \in 1..Len(d) : d[i].k = Head(pairs).k
    THEN DictOf([i \in 1..Len(d) |->
                    IF d[i].k = Head(pairs).k THEN Head(pairs) ELSE d[i]],
                Tail(pairs))
    ELSE DictOf(Append(d, Head(pairs)), Tail(pairs))

\* if not k.startswith('_') and v
KeepsPair(kv) == ~startswith_underscore(kv.k) /\ truthy(kv.v)

RECURSIVE prepare_for_output(_)
RECURSIVE PreparedPairs(_)
RECURSIVE PreparedItems(_)
\* [(k, prepare_for_output(v)) for k, v in obj.items() if ...]
PreparedPairs(pairs) ==
    IF pairs = <<>> THEN <<>>
    ELSE IF KeepsPair(Head(pairs))
    THEN <<Pair(Head(pairs).k, prepare_for_output(Head(pairs).v))>>
            \o PreparedPairs(Tail(pairs))
    ELSE PreparedPairs(Tail(pairs))

\* [prepare_for_output(x) for x in obj]
PreparedItems(items) ==
    IF items = <<>> THEN <<>>
    ELSE <<prepare_for_output(Head(items))>> \o PreparedItems(Tail(items))

prepare_for_output(obj) ==
    IF obj.type = "dict"
    THEN PyDict(DictOf(<<>>, SortPairs(<<>>, PreparedPairs(obj.val))))
    ELSE IF obj.type = "list"
    THEN PyList(PreparedItems(obj.val))
    ELSE obj

(***************************************************************************)
(* SpecOutput: prepare_for_output on every dict of up to MaxKeys keys of   *)
(* PoKeys whose values are scalars, dicts and lists nested up to two deep. *)
(***************************************************************************)
MaxKeys == 2

\* The dicts of at most n pairs, of distinct keys, over the keys and values
DictsOver(keys, values, n) ==
    {PyDict(pairs) : pairs \in
        {ps \in SeqsUpTo({Pair(k, v) : k \in keys, v \in values}, n) :
            \A i, j \in 1..Len(ps) : ps[i].k = ps[j].k => i = j}}

ListsOver(values, n) == {PyList(items) : items \in SeqsUpTo(values, n)}

PoScalars == {PyNone, PyInt(0), PyStr(<<"x">>)}

PoInnerKeys == {<<"_", "k">>, <<"z", "z">>}

PoKeys == {<<"_", "i", "d">>, <<"t", "e", "x", "t">>, <<"z", "z">>}

PoLeaves ==
    PoScalars \cup DictsOver(PoInnerKeys, PoScalars, 1)
              \cup ListsOver(PoScalars, 1)

PoValues ==
    PoLeaves \cup DictsOver(PoInnerKeys, PoLeaves, 1) \cup ListsOver(PoLeaves, 1)

PoInit ==
    /\ \E obj \in DictsOver(PoKeys, PoValues, MaxKeys) :
          prepared = [obj |-> obj, result |-> PyNone, pc |-> "call"]
    /\ nc = Idle
    /\ ft = Idle
    /\ consumer = Idle
    /\ segmenter = Idle
    /\ report = Idle
    /\ driver = Idle

PrepareForOutput ==
    /\ prepared.pc = "call"
    /\ prepared' = [prepared EXCEPT !.result = prepare_for_output(prepared.obj),
                                    !.pc = "done"]
    /\ UNCHANGED <<nc, ft, consumer, segmenter, report, driver>>

PoNext == PrepareForOutput

SpecOutput == PoInit /\ [][PoNext]_vars

\* The dicts of a value, at any depth through dicts and lists
RECURSIVE DictsIn(_)
DictsIn(v) ==
    IF v.type = "dict"
    THEN {v} \cup UNION {DictsIn(v.val[i].v) : i \in 1..Len(v.val)}
    ELSE IF v.type = "list"
    THEN UNION {DictsIn(v.val[i]) : i \in 1..Len(v.val)}
    ELSE {}

\* C11: in the value returned by prepare_for_output, no dict at any depth has
\* a key that begins with an underscore or a key whose value is falsy.
C11_NoHiddenOrFalsy ==
    prepared.pc = "done" =>
        \A d \in DictsIn(prepared.result) :
            \A i \in 1..Len(d.val) :
                /\ ~startswith_underscore(d.val[i].k)
                /\ truthy(d.val[i].v)

(***************************************************************************)
(* The Markup of formatted_text against its input (SpecMarkup)             *)
(***************************************************************************)
\* The tracked attributes asserted in the style of a character
Asserted(char, attrs) ==
    {attrs[k] : k \in {m \in 1..Len(attrs) : char.format[attrs[m]]}}

\* n copies of x
Repeat(x, n) == [k \in 1..n |-> x]

\* For every codepoint of the canonical decomposition of what the
\* non-whitespace characters normalize to, in order, the attributes asserted
\* in the style of its character
RECURSIVE CharTags(_, _)
CharTags(chars, kwargs) ==
    IF chars = <<>> THEN <<>>
    ELSE (IF isspace(Head(chars).char) THEN <<>>
          ELSE Repeat(Asserted(Head(chars), kwargs.markup),
                      Len(DecomposeAll(
                             normalize_char(Head(chars), kwargs).value))))
         \o CharTags(Tail(chars), kwargs)

\* For every non-whitespace codepoint of the canonical decomposition of the
\* leaves, in document order, the tags of the nodes that enclose its leaf
RECURSIVE LeafTags(_, _)
LeafTags(nodes, enclosing) ==
    IF nodes = <<>> THEN <<>>
    ELSE (IF IsLeaf(Head(nodes))
          THEN Repeat(enclosing,
                      Len(DecomposeAll(WithoutSpaces(Head(nodes).text))))
          ELSE LeafTags(Head(nodes).children,
                        enclosing \cup {Head(nodes).tag}))
         \o LeafTags(Tail(nodes), enclosing)

\* C12: in the Markup returned, the tags of the nodes enclosing the leaf that
\* holds a non-whitespace character are exactly the tracked attributes
\* asserted in the style of that character; so an attribute revoked at a
\* shallow level closes the deeper nodes too, and the attributes still
\* asserted are reopened as new nodes.
C12_EnclosingTagsAreAsserted ==
    ft.pc = "done" => LeafTags(Markup(ft), {}) = CharTags(ft.chars, ft.kwargs)

\* italic is revoked under sup, which stays asserted: sup is closed with
\* italic and reopened as a new node.
C12_Witness ==
    /\ ft.pc = "done"
    /\ ft.kwargs.markup = <<"italic", "sup">>
    /\ Len(ft.chars) = 2
    /\ Markup(ft) =
          <<[NewLevel("italic", NoData) EXCEPT !.children =
                <<[NewLevel("sup", NoData) EXCEPT !.children =
                      <<Leaf(<<"a">>)>>]>>],
            [NewLevel("sup", NoData) EXCEPT !.children = <<Leaf(<<"a">>)>>]>>

\* The last leaf of a node, following last children, exists, is not empty
\* and does not end in whitespace
RECURSIVE EndsInText(_)
EndsInText(node) ==
    IF IsLeaf(node)
    THEN node.text # <<>> /\ ~isspace(node.text[Len(node.text)])
    ELSE node.children # <<>> /\ EndsInText(node.children[Len(node.children)])

\* Every tagged node of the forest, at any depth, ends in text
RECURSIVE TaggedEndInText(_)
TaggedEndInText(nodes) ==
    \A k \in 1..Len(nodes) :
        IsLeaf(nodes[k])
        \/ (EndsInText(nodes[k]) /\ TaggedEndInText(nodes[k].children))

\* The texts of the leaves of a forest, concatenated in document order
RECURSIVE LeafText(_)
LeafText(nodes) ==
    IF nodes = <<>> THEN <<>>
    ELSE (IF IsLeaf(Head(nodes)) THEN Head(nodes).text
          ELSE LeafText(Head(nodes).children))
         \o LeafText(Tail(nodes))

Spaces(text) == Cardinality({k \in 1..Len(text) : isspace(text[k])})

C14_TextConserved ==
    ft.pc = "done" =>
        /\ ~plain_text(ft.chars, FALSE, ft.kwargs).raised
        /\ LeafText(Markup(ft))
              = rstrip(plain_text(ft.chars, FALSE, ft.kwargs).value)

\* C14 (amended): the same up to canonical composition, which each leaf
\* applies to its own text: the two texts have the same NFC form.
C14_TextConservedNFC ==
    ft.pc = "done" =>
        /\ ~plain_text(ft.chars, FALSE, ft.kwargs).raised
        /\ NFC(LeafText(Markup(ft)))
              = NFC(rstrip(plain_text(ft.chars, FALSE, ft.kwargs).value))

\* Text on both sides of a node boundary, with an interior space that was
\* left for the next segment and a trailing one
C14_Witness ==
    /\ ft.pc = "done"
    /\ Len(ft.chars) = 4
    /\ isspace(ft.chars[4].char)
    /\ Len(Markup(ft)) = 2
    /\ ~IsLeaf(Markup(ft)[1])
    /\ LeafText(Markup(ft)) = <<"a", " ", "a">>

=============================================================================
